---- MODULE Spec2Model ----
(***************************************************************************)
(* Model of src/aap.py: the JSON-file cache (LinkedInCache), the profile   *)
(* record (LinkedInProfile), and the crawl controller (LinkedInScraper     *)
(* with main).                                                             *)
(*                                                                         *)
(* Python values are represented as follows.                               *)
(*   str used as URL     a sequence of tokens, so that `in` (substring)    *)
(*                       and split('?') are computed, "" is << >>          *)
(*   Optional[x]         None is {}, a present value x is {x}              *)
(*   dict                a function whose DOMAIN is the set of keys        *)
(*   list                a sequence                                        *)
(*   datetime            an integer number of clock ticks of 6 hours       *)
(***************************************************************************)
EXTENDS Integers, Sequences, FiniteSets, TLC

VARIABLES
    file,         \* content of linkedin_cache.json on disk
    cache,        \* LinkedInCache.cache, the in-memory dict
    alive,        \* FALSE once an exception left the process unhandled
    clock,        \* datetime.now(), in ticks
    importTime,   \* datetime.now() when the module was imported (line 33)
    loadedFrom,   \* what kind of file the running process was constructed on
    lastOp,       \* the last LinkedInCache call: name, argument, result
    prevCache,    \* cache before the last call
    prevFile,     \* file before the last call
    pc,           \* position of main / search_profiles
    max_profiles, \* args.max
    query,        \* args.query
    context,      \* cookies of self.context, None before start_browser
    browser,      \* self.browser: "none", "open" or "closed"
    loggedIn,     \* what login() returned, None before it ran
    attempt,      \* the loop variable of range(3)
    pageUrl,      \* self.page.url
    pageLen,      \* len(profiles), the elements query_selector_all gave
    idx,          \* elements of the page already iterated
    count,        \* the local count of search_profiles
    gotos,        \* page.goto calls of this search_profiles call
    delays,       \* random_delay calls of this search_profiles call
    failKinds,    \* which statements raised into the attempt handler
    exitVia,      \* the return statement search_profiles left through
    result,       \* the value search_profiles returned
    startCache,   \* cache when search_profiles was entered
    startFile,    \* file when search_profiles was entered
    lastItem,     \* the last iteration of the element loop, None before it
    itemFails     \* iterations of this call that ended in the except of line 202

cacheVars == <<file, cache, alive, clock, importTime, loadedFrom>>
histVars  == <<lastOp, prevCache, prevFile>>
runVars   == <<pc, max_profiles, query, context, browser, loggedIn>>
callVars  == <<attempt, pageUrl, pageLen, idx, count, gotos, delays,
               failKinds, exitVia, result, startCache, startFile,
               lastItem, itemFails>>
vars      == <<cacheVars, histVars, runVars, callVars>>

-----------------------------------------------------------------------------
(* Bounds of the model *)

MaxClock == 3     \* the clock stops advancing here
MaxCap   == 2     \* largest --max tried
MaxItems == 3     \* longest results page tried

-----------------------------------------------------------------------------
(* Python values *)

None == {}
Some(x) == {x}
Val(o) == CHOOSE x \in o : TRUE

EmptyDict == [k \in {} |-> {}]

\* d[k] = v
DictSet(d, k, v) == [j \in (DOMAIN d) \cup {k} |-> IF j = k THEN v ELSE d[j]]

\* d.get(k)
DictGet(d, k) == IF k \in DOMAIN d THEN d[k] ELSE None

\* x in lst
InList(x, lst) == \E i \in 1..Len(lst) : lst[i] = x

\* datetime.isoformat() and datetime.fromisoformat()
isoformat(t) == [iso |-> t]
fromisoformat(s) == s.iso

\* timedelta(hours=12), in ticks of 6 hours
FRESHNESS_WINDOW == 2

-----------------------------------------------------------------------------
(* LinkedInProfile *)

\* The dataclass constructor with scraped_at left to its default, which
\* Python evaluated once, when the class body ran.
LinkedInProfile(name, profile_url, headline, location) ==
    [name |-> name, profile_url |-> profile_url, headline |-> headline,
     location |-> location, scraped_at |-> isoformat(importTime)]

\* dataclasses.asdict: the same five fields as a dict
asdict(p) == p

-----------------------------------------------------------------------------
(* The durable store *)

Absent   == [kind |-> "absent",   value |-> EmptyDict]
BadJson  == [kind |-> "badjson",  value |-> EmptyDict]  \* text json cannot parse
BadBytes == [kind |-> "badbytes", value |-> EmptyDict]  \* bytes open() cannot decode
EmptyObject == [kind |-> "json",  value |-> EmptyDict]  \* the text {}

\* json.dump(self.cache, f): the values held are str, None, list and dict
\* with str keys, which json.load gives back unchanged.
json_dump(c) == [kind |-> "json", value |-> c]

EmptyCacheState ==
    [profiles |-> EmptyDict, visited_search_pages |-> << >>,
     cookies |-> None, last_session |-> None]

CacheKeys == {"profiles", "visited_search_pages", "cookies", "last_session"}

\* What a file is to the loader: missing, unreadable, or JSON that is or is
\* not an object with the four keys of the cache
FileClass(f) ==
    IF f.kind = "json"
    THEN IF DOMAIN f.value = CacheKeys THEN "state" ELSE "other_json"
    ELSE f.kind

\* LinkedInCache._load_cache
_load_cache(f) ==
    CASE f.kind = "absent"   -> [raised |-> FALSE, cache |-> EmptyCacheState]
      [] f.kind = "json"     -> [raised |-> FALSE, cache |-> f.value]
      [] f.kind = "badjson"  -> [raised |-> FALSE, cache |-> EmptyCacheState]
      [] f.kind = "badbytes" -> [raised |-> TRUE,  cache |-> EmptyDict]

-----------------------------------------------------------------------------
(* LinkedInCache operations, as functions of the dict.  Each gives          *)
(*   raised  an exception left the method                                  *)
(*   cache   the dict afterwards                                           *)
(*   save    save_cache ran                                                *)
(*   ret     the returned value, as an Optional                            *)

Outcome(raised, c, save, ret) ==
    [raised |-> raised, cache |-> c, save |-> save, ret |-> ret]

\* dict.setdefault in place of the assignment of line 54
add_profile_setdefault(c, profile) ==
    IF "profiles" \notin DOMAIN c
    THEN Outcome(TRUE, c, FALSE, None)
    ELSE IF profile.profile_url \in DOMAIN c["profiles"]
         THEN Outcome(FALSE, c, TRUE, None)
         ELSE Outcome(FALSE,
                      DictSet(c, "profiles",
                              DictSet(c["profiles"], profile.profile_url, asdict(profile))),
                      TRUE, None)

add_profile(c, profile) ==
    IF "profiles" \notin DOMAIN c
    THEN Outcome(TRUE, c, FALSE, None)
    ELSE Outcome(FALSE,
                 DictSet(c, "profiles",
                         DictSet(c["profiles"], profile.profile_url, asdict(profile))),
                 TRUE, None)

profile_exists(c, profile_url) ==
    IF "profiles" \notin DOMAIN c
    THEN Outcome(TRUE, c, FALSE, None)
    ELSE Outcome(FALSE, c, FALSE, Some(profile_url \in DOMAIN c["profiles"]))

\* line 61 dropped: append and save whatever the list holds
add_visited_search_page_always(c, search_url) ==
    IF "visited_search_pages" \notin DOMAIN c
    THEN Outcome(TRUE, c, FALSE, None)
    ELSE Outcome(FALSE,
                 DictSet(c, "visited_search_pages",
                         Append(c["visited_search_pages"], search_url)),
                 TRUE, None)

\* line 63 dropped: the URL is appended in memory only
add_visited_search_page_unsaved(c, search_url) ==
    IF "visited_search_pages" \notin DOMAIN c
    THEN Outcome(TRUE, c, FALSE, None)
    ELSE IF ~InList(search_url, c["visited_search_pages"])
         THEN Outcome(FALSE,
                      DictSet(c, "visited_search_pages",
                              Append(c["visited_search_pages"], search_url)),
                      FALSE, None)
         ELSE Outcome(FALSE, c, FALSE, None)

\* LinkedInCache.add_visited_search_page
add_visited_search_page(c, search_url) ==
    IF "visited_search_pages" \notin DOMAIN c
    THEN Outcome(TRUE, c, FALSE, None)
    ELSE IF ~InList(search_url, c["visited_search_pages"])
         THEN Outcome(FALSE,
                      DictSet(c, "visited_search_pages",
                              Append(c["visited_search_pages"], search_url)),
                      TRUE, None)
         ELSE Outcome(FALSE, c, FALSE, None)

\* a membership test that never finds the URL
is_search_page_visited_never(c, search_url) ==
    IF "visited_search_pages" \notin DOMAIN c
    THEN Outcome(TRUE, c, FALSE, None)
    ELSE Outcome(FALSE, c, FALSE, Some(FALSE))

is_search_page_visited(c, search_url) ==
    IF "visited_search_pages" \notin DOMAIN c
    THEN Outcome(TRUE, c, FALSE, None)
    ELSE Outcome(FALSE, c, FALSE, Some(InList(search_url, c["visited_search_pages"])))

\* line 71 dropped: the cookies stay in memory only
save_cookies_unsaved(c, cookies, now) ==
    Outcome(FALSE,
            DictSet(DictSet(c, "cookies", Some(cookies)),
                    "last_session", Some(isoformat(now))),
            FALSE, None)

\* line 70 dropped: last_session is not stamped
save_cookies_no_stamp(c, cookies, now) ==
    Outcome(FALSE, DictSet(c, "cookies", Some(cookies)), TRUE, None)

\* LinkedInCache.save_cookies
save_cookies(c, cookies, now) ==
    Outcome(FALSE,
            DictSet(DictSet(c, "cookies", Some(cookies)),
                    "last_session", Some(isoformat(now))),
            TRUE, None)

\* Python truth value of an Optional[list] and of an Optional[str]
TruthyList(o) == o # None /\ Len(Val(o)) > 0
TruthyStr(o)  == o # None

\* >= in place of > on line 77
get_cookies_strict(c, now) ==
    IF ~TruthyList(DictGet(c, "cookies")) \/ ~TruthyStr(DictGet(c, "last_session"))
    THEN Outcome(FALSE, c, FALSE, None)
    ELSE IF now - fromisoformat(Val(c["last_session"])) >= FRESHNESS_WINDOW
         THEN Outcome(FALSE, c, FALSE, None)
         ELSE Outcome(FALSE, c, FALSE, c["cookies"])

get_cookies(c, now) ==
    IF ~TruthyList(DictGet(c, "cookies")) \/ ~TruthyStr(DictGet(c, "last_session"))
    THEN Outcome(FALSE, c, FALSE, None)
    ELSE IF now - fromisoformat(Val(c["last_session"])) > FRESHNESS_WINDOW
         THEN Outcome(FALSE, c, FALSE, None)
         ELSE Outcome(FALSE, c, FALSE, c["cookies"])

-----------------------------------------------------------------------------
(* Inputs *)

InitFiles == {Absent, BadJson, BadBytes, EmptyObject}

CookieJars == { << >>, <<"li_at">> }

Queries == { <<"software", " ", "engineer">>, <<"nurse">> }

\* str.replace(' ', '%20')
replace_space(q) == [i \in 1..Len(q) |-> IF q[i] = " " THEN "%20" ELSE q[i]]

\* line 155
search_url(q) ==
    <<"https://www.linkedin.com/search/results/people/", "?", "keywords=">>
        \o replace_space(q)

CheckpointUrl == <<"https://www.linkedin.com/", "checkpoint", "/challenge">>

\* the test of line 161 looking for another word
is_checkpoint_other(url) == \E i \in 1..Len(url) : url[i] = "captcha"

\* "checkpoint" in self.page.url
is_checkpoint(url) == \E i \in 1..Len(url) : url[i] = "checkpoint"

NA == <<"N/A">>

UrlAnn == <<"/in/ann">>
UrlBob == <<"/in/bob">>

\* Profiles a caller of LinkedInCache passes to add_profile
CallerProfiles ==
    { LinkedInProfile("Ann", UrlAnn, Some("Engineer"), Some("Pune")),
      LinkedInProfile("Anna", UrlAnn, None, None),
      LinkedInProfile("Bob", UrlBob, None, None) }

NoOp(name) == [op |-> name, arg |-> None, raised |-> FALSE, save |-> FALSE, ret |-> None]

Op(name, arg, out) ==
    [op |-> name, arg |-> Some(arg), raised |-> out.raised, save |-> out.save, ret |-> out.ret]

-----------------------------------------------------------------------------
(* Process start: LinkedInScraper.__init__ builds the LinkedInCache *)

Construct(f, now) ==
    LET r == _load_cache(f) IN
    /\ cache' = r.cache
    /\ alive' = ~r.raised
    /\ importTime' = now
    /\ loadedFrom' = FileClass(f)
    /\ lastOp' = [NoOp("load") EXCEPT !.raised = r.raised]
    /\ prevCache' = r.cache
    /\ prevFile' = f

IdleCall ==
    /\ attempt' = 0 /\ pageUrl' = << >> /\ pageLen' = 0 /\ idx' = 0 /\ count' = 0
    /\ gotos' = 0 /\ delays' = 0 /\ failKinds' = {} /\ exitVia' = "none"
    /\ result' = None /\ startCache' = EmptyDict /\ startFile' = Absent
    /\ lastItem' = None /\ itemFails' = 0

\* The state after LinkedInCache(cache_file) ran on the file found on disk
Boot ==
    /\ file \in InitFiles
    /\ clock = 0
    /\ LET r == _load_cache(file) IN
         /\ cache = r.cache
         /\ alive = ~r.raised
         /\ lastOp = [NoOp("load") EXCEPT !.raised = r.raised]
         /\ prevCache = r.cache
    /\ importTime = 0
    /\ loadedFrom = FileClass(file)
    /\ prevFile = file
    /\ pc = "start_browser"
    /\ context = None
    /\ browser = "none"
    /\ loggedIn = None
    /\ attempt = 0 /\ pageUrl = << >> /\ pageLen = 0 /\ idx = 0 /\ count = 0
    /\ gotos = 0 /\ delays = 0 /\ failKinds = {} /\ exitVia = "none"
    /\ result = None /\ startCache = EmptyDict /\ startFile = Absent
    /\ lastItem = None /\ itemFails = 0

\* main() after parse_args and LinkedInScraper(...)
Init ==
    /\ Boot
    /\ max_profiles \in 0..MaxCap
    /\ query \in Queries

\* a program that only builds a LinkedInCache
CacheInit ==
    /\ Boot
    /\ max_profiles = 0
    /\ query = <<"nurse">>

\* A cache call: the dict, the file and the call history after it
Apply(name, arg, out) ==
    /\ cache' = out.cache
    /\ file' = IF out.save THEN json_dump(out.cache) ELSE file
    /\ lastOp' = Op(name, arg, out)
    /\ prevCache' = cache
    /\ prevFile' = file

\* time passes
Tick ==
    /\ clock < MaxClock
    /\ clock' = clock + 1
    /\ UNCHANGED <<file, cache, alive, importTime, loadedFrom>>
    /\ UNCHANGED <<histVars, runVars, callVars>>

-----------------------------------------------------------------------------
(* A caller that uses a LinkedInCache object directly, any method in any   *)
(* order, and a process that ends and is started again on the same file.   *)

CallAddProfile ==
    /\ alive
    /\ \E p \in CallerProfiles : Apply("add_profile", p, add_profile(cache, p))
    /\ UNCHANGED <<alive, clock, importTime, loadedFrom, runVars, callVars>>

CallProfileExists ==
    /\ alive
    /\ \E u \in {UrlAnn, UrlBob} : Apply("profile_exists", u, profile_exists(cache, u))
    /\ UNCHANGED <<alive, clock, importTime, loadedFrom, runVars, callVars>>

CallAddVisited ==
    /\ alive
    /\ \E q \in Queries :
          Apply("add_visited_search_page", search_url(q),
                add_visited_search_page(cache, search_url(q)))
    /\ UNCHANGED <<alive, clock, importTime, loadedFrom, runVars, callVars>>

CallIsVisited ==
    /\ alive
    /\ \E q \in Queries :
          Apply("is_search_page_visited", search_url(q),
                is_search_page_visited(cache, search_url(q)))
    /\ UNCHANGED <<alive, clock, importTime, loadedFrom, runVars, callVars>>

CallSaveCookies ==
    /\ alive
    /\ \E c \in CookieJars : Apply("save_cookies", c, save_cookies(cache, c, clock))
    /\ UNCHANGED <<alive, clock, importTime, loadedFrom, runVars, callVars>>

CallGetCookies ==
    /\ alive
    /\ Apply("get_cookies", clock, get_cookies(cache, clock))
    /\ UNCHANGED <<alive, clock, importTime, loadedFrom, runVars, callVars>>

Restart ==
    /\ Construct(file, clock)
    /\ UNCHANGED <<file, clock, runVars, callVars>>

CacheNext ==
    \/ CallAddProfile
    \/ CallProfileExists
    \/ CallAddVisited
    \/ CallIsVisited
    \/ CallSaveCookies
    \/ CallGetCookies
    \/ Restart
    \/ Tick

CacheSpec == CacheInit /\ [][CacheNext]_vars

-----------------------------------------------------------------------------
(* The process is killed while save_cache runs *)

\* What lines 50-51 can leave on disk when the process stops inside them,
\* f being the file before and c the dict being dumped: f untouched (before
\* open), the empty file open(.., 'w') makes or a flushed prefix of the
\* dump (neither parses), or the whole dump (after the last write).
save_cache_killed(f, c) == {f, BadJson, json_dump(c)}

\* The process stops inside the save_cache of a call with argument arg whose
\* outcome would have been out
Killed(arg, out) ==
    /\ out.save
    /\ cache' = out.cache
    /\ file' \in save_cache_killed(file, out.cache)
    /\ lastOp' = [op |-> "killed", arg |-> Some(arg), raised |-> TRUE,
                  save |-> TRUE, ret |-> None]

KilledInSave ==
    /\ alive
    /\ \/ \E p \in CallerProfiles : Killed(p, add_profile(cache, p))
       \/ \E q \in Queries :
            Killed(search_url(q), add_visited_search_page(cache, search_url(q)))
       \/ \E j \in CookieJars : Killed(j, save_cookies(cache, j, clock))
    /\ alive' = FALSE
    /\ prevCache' = cache
    /\ prevFile' = file
    /\ UNCHANGED <<clock, importTime, loadedFrom, runVars, callVars>>

KillNext ==
    \/ CallAddProfile
    \/ CallProfileExists
    \/ CallAddVisited
    \/ CallIsVisited
    \/ CallSaveCookies
    \/ CallGetCookies
    \/ Restart
    \/ Tick
    \/ KilledInSave

KillSpec == CacheInit /\ [][KillNext]_vars

-----------------------------------------------------------------------------
(* The results page *)

\* What the four query_selector calls and the text/attribute reads of one
\* li.reusable-search__result-container give:
\*   detached  a read raises (the element left the DOM)
\*   name      text of the name span, None when the span is missing
\*   has_link  a.app-aware-link is present
\*   href      its href attribute, None when the attribute is missing
Elem(detached, name, has_link, href, headline, location) ==
    [detached |-> detached, name |-> name, has_link |-> has_link,
     href |-> href, headline |-> headline, location |-> location]

Elements ==
    { Elem(FALSE, Some("Ann"), TRUE, Some(<<"/in/ann", "?", "trk=x">>),
           Some("Engineer"), Some("Pune")),
      Elem(FALSE, None, TRUE, Some(<<"/in/bob">>), None, None),
      Elem(FALSE, Some("Cy"), FALSE, None, None, None),
      Elem(FALSE, Some("Di"), FALSE, None, Some("Nurse"), None),
      Elem(FALSE, Some("Dee"), TRUE, None, None, None),
      Elem(FALSE, Some("Eve"), TRUE, Some(<< >>), None, None),
      Elem(TRUE, None, FALSE, None, None, None) }

Min(S) == CHOOSE m \in S : \A n \in S : m <= n

\* str.split('?')[0]
split_first(h) ==
    LET marks == {i \in 1..Len(h) : h[i] = "?"} IN
    IF marks = {} THEN h ELSE SubSeq(h, 1, Min(marks) - 1)

\* range(3)
ATTEMPTS == 3

\* One iteration of the loop of lines 176-203 on element e, with the dict c,
\* the local count cnt and self.max_profiles cap.
\*   ops      the cache calls made, as lastOp records
\*   delayed  random_delay ran (line 201)
\*   stop     the break of line 200 was taken
\*   raised   the except of line 202 caught something
ItemOutcome(c, save, ops, cnt, delayed, stop, raised) ==
    [cache |-> c, save |-> save, ops |-> ops, count |-> cnt,
     delayed |-> delayed, stop |-> stop, raised |-> raised]

\* an empty name in place of "N/A"
text_or_na_blank(t) == IF t # None THEN Val(t) ELSE ""

\* line 183: the text of the name span, "N/A" when the span is missing
text_or_na(t) == IF t # None THEN Val(t) ELSE "N/A"

\* an empty URL in place of "N/A"
link_or_na_blank(e) == IF e.has_link THEN split_first(Val(e.href)) ELSE << >>

\* line 184: the href up to the first '?', "N/A" when the element has no
\* a.app-aware-link
link_or_na(e) == IF e.has_link THEN split_first(Val(e.href)) ELSE NA

extract_item(c, e, cnt, cap) ==
    IF e.detached \/ (e.has_link /\ e.href = None)
    THEN ItemOutcome(c, FALSE, << >>, cnt, FALSE, FALSE, TRUE)
    ELSE
      LET name == text_or_na(e.name)
          profile_url == link_or_na(e)
          ex == profile_exists(c, profile_url)
          profile_data == LinkedInProfile(name, profile_url, e.headline, e.location)
          ad == add_profile(c, profile_data)
      IN
      IF Len(profile_url) = 0
      THEN ItemOutcome(c, FALSE, << >>, cnt, TRUE, FALSE, FALSE)
      ELSE IF ex.raised
      THEN ItemOutcome(c, FALSE, <<Op("profile_exists", profile_url, ex)>>,
                       cnt, FALSE, FALSE, TRUE)
      ELSE IF Val(ex.ret)
      THEN ItemOutcome(c, FALSE, <<Op("profile_exists", profile_url, ex)>>,
                       cnt, TRUE, FALSE, FALSE)
      ELSE IF ad.raised
      THEN ItemOutcome(c, FALSE,
                       <<Op("profile_exists", profile_url, ex),
                         Op("add_profile", profile_data, ad)>>,
                       cnt, FALSE, FALSE, TRUE)
      ELSE ItemOutcome(ad.cache, TRUE,
                       <<Op("profile_exists", profile_url, ex),
                         Op("add_profile", profile_data, ad)>>,
                       cnt + 1, ~(cnt + 1 >= cap), cnt + 1 >= cap, FALSE)

-----------------------------------------------------------------------------
(* main and LinkedInScraper *)

\* search_profiles returns val through the return statement named via
Return(val, via) ==
    /\ result' = Some(val)
    /\ exitVia' = via
    /\ pc' = "close_browser"

\* range(4) in place of range(3)
Fail_one_more(k) ==
    /\ failKinds' = failKinds \cup {k}
    /\ delays' = delays + 1
    /\ attempt' = attempt + 1
    /\ IF attempt + 1 < ATTEMPTS + 1
       THEN /\ pc' = "sp_goto"
            /\ UNCHANGED <<exitVia, result>>
       ELSE Return(FALSE, "exhausted")

\* The handler of lines 205-207 after a statement of kind k raised, and
\* lines 208-209 when that was the last attempt
Fail(k) ==
    /\ failKinds' = failKinds \cup {k}
    /\ delays' = delays + 1
    /\ attempt' = attempt + 1
    /\ IF attempt + 1 < ATTEMPTS
       THEN /\ pc' = "sp_goto"
            /\ UNCHANGED <<exitVia, result>>
       ELSE Return(FALSE, "exhausted")

\* start_browser, lines 109-119, and the test of line 228
StartBrowser ==
    /\ alive
    /\ pc = "start_browser"
    /\ \/ /\ context' = Some(<< >>)
          /\ browser' = "open"
          /\ pc' = "login"
       \/ /\ context' = None
          /\ browser' = "none"
          /\ pc' = "exit"
    /\ UNCHANGED <<cacheVars, histVars, max_profiles, query, loggedIn, callVars>>

\* close_browser nested under the test of line 229
Login_then_teardown ==
    /\ pc = "login"
    /\ \E jar \in CookieJars : context' = Some(jar)
    /\ \/ /\ loggedIn' = Some(TRUE)
          /\ pc' = "sp_goto"
          /\ attempt' = 0 /\ pageUrl' = << >> /\ pageLen' = 0
          /\ idx' = 0 /\ count' = 0 /\ gotos' = 0 /\ delays' = 0
          /\ failKinds' = {} /\ exitVia' = "none" /\ result' = None
          /\ startCache' = cache /\ startFile' = file
          /\ lastItem' = None /\ itemFails' = 0
       \/ /\ loggedIn' = Some(FALSE)
          /\ pc' = "exit"
          /\ UNCHANGED callVars
    /\ UNCHANGED <<cacheVars, histVars, max_profiles, query, browser>>

\* login, lines 135-149, and the test of line 229; on True main enters
\* search_profiles
Login ==
    /\ pc = "login"
    /\ \E jar \in CookieJars : context' = Some(jar)
    /\ \/ /\ loggedIn' = Some(TRUE)
          /\ pc' = "sp_goto"
          /\ attempt' = 0 /\ pageUrl' = << >> /\ pageLen' = 0
          /\ idx' = 0 /\ count' = 0 /\ gotos' = 0 /\ delays' = 0
          /\ failKinds' = {} /\ exitVia' = "none" /\ result' = None
          /\ startCache' = cache /\ startFile' = file
          /\ lastItem' = None /\ itemFails' = 0
       \/ /\ loggedIn' = Some(FALSE)
          /\ pc' = "close_browser"
          /\ UNCHANGED callVars
    /\ UNCHANGED <<cacheVars, histVars, max_profiles, query, browser>>

\* lines 154-163: navigation, the two waits and the checkpoint test
SpGoto ==
    /\ pc = "sp_goto"
    /\ gotos' = gotos + 1
    /\ \/ /\ Fail("nav")
          /\ UNCHANGED pageUrl
       \/ \E u \in {search_url(query), CheckpointUrl} :
            /\ pageUrl' = u
            /\ IF is_checkpoint(u)
               THEN Return(FALSE, "checkpoint")
               ELSE pc' = "sp_wait" /\ UNCHANGED <<exitVia, result>>
            /\ UNCHANGED <<attempt, delays, failKinds>>
    /\ UNCHANGED <<cacheVars, histVars, max_profiles, query, context, browser, loggedIn>>
    /\ UNCHANGED <<pageLen, idx, count, startCache, startFile, lastItem, itemFails>>

\* line 165: wait for the results container
SpWait ==
    /\ pc = "sp_wait"
    /\ \/ Fail("nav")
       \/ /\ pc' = "sp_visited"
          /\ UNCHANGED <<attempt, delays, failKinds, exitVia, result>>
    /\ UNCHANGED <<cacheVars, histVars, max_profiles, query, context, browser, loggedIn>>
    /\ UNCHANGED <<pageUrl, pageLen, idx, count, gotos, startCache, startFile,
                   lastItem, itemFails>>

\* lines 167-169
SpVisited ==
    /\ pc = "sp_visited"
    /\ LET v == is_search_page_visited(cache, pageUrl) IN
         /\ Apply("is_search_page_visited", pageUrl, v)
         /\ IF v.raised
            THEN Fail("cache")
            ELSE IF Val(v.ret)
            THEN Return(TRUE, "visited") /\ UNCHANGED <<attempt, delays, failKinds>>
            ELSE pc' = "sp_mark"
                 /\ UNCHANGED <<attempt, delays, failKinds, exitVia, result>>
    /\ UNCHANGED <<alive, clock, importTime, loadedFrom, max_profiles, query, context,
                   browser, loggedIn>>
    /\ UNCHANGED <<pageUrl, pageLen, idx, count, gotos, startCache, startFile,
                   lastItem, itemFails>>

\* line 171
SpMark ==
    /\ pc = "sp_mark"
    /\ LET m == add_visited_search_page(cache, pageUrl) IN
         /\ Apply("add_visited_search_page", pageUrl, m)
         /\ IF m.raised
            THEN Fail("cache")
            ELSE pc' = "sp_query"
                 /\ UNCHANGED <<attempt, delays, failKinds, exitVia, result>>
    /\ UNCHANGED <<alive, clock, importTime, loadedFrom, max_profiles, query, context,
                   browser, loggedIn>>
    /\ UNCHANGED <<pageUrl, pageLen, idx, count, gotos, startCache, startFile,
                   lastItem, itemFails>>

\* lines 173-174 when query_selector_all raises or gives a list whose length
\* is in lens, and line 204 when the list is empty
QueryStep(lens) ==
    /\ \/ /\ Fail("query")
          /\ UNCHANGED <<pageLen, idx, count>>
       \/ \E n \in lens :
            /\ pageLen' = n
            /\ idx' = 0
            /\ count' = 0
            /\ IF n = 0
               THEN Return(TRUE, "extracted")
               ELSE pc' = "sp_loop" /\ UNCHANGED <<exitVia, result>>
            /\ UNCHANGED <<attempt, delays, failKinds>>
    /\ UNCHANGED <<cacheVars, histVars, max_profiles, query, context, browser, loggedIn>>
    /\ UNCHANGED <<pageUrl, gotos, startCache, startFile, lastItem, itemFails>>

\* lines 173-174 on any page of up to MaxItems elements
SpQuery ==
    /\ pc = "sp_query"
    /\ QueryStep(0..MaxItems)

\* what the loop did with element e
ItemRecord(e, r) ==
    [elem |-> e, ops |-> r.ops, stored |-> r.save, delayed |-> r.delayed,
     stop |-> r.stop, raised |-> r.raised]

\* a break in the handler of line 202
AfterItem_break(r) ==
    IF r.raised \/ r.stop \/ idx + 1 = pageLen
    THEN Return(TRUE, "extracted")
    ELSE pc' = "sp_loop" /\ UNCHANGED <<exitVia, result>>

\* Where the loop goes after an iteration with outcome r: out of the loop to
\* line 204 after the break of line 200 or the last element, to the next
\* element otherwise, the except of line 202 included
AfterItem(r) ==
    IF r.stop \/ idx + 1 = pageLen
    THEN Return(TRUE, "extracted")
    ELSE pc' = "sp_loop" /\ UNCHANGED <<exitVia, result>>

\* lines 176-203 for the next element, when it is e, and line 204 after the
\* last one or after the break
ItemStep(e) ==
    LET r == extract_item(cache, e, count, max_profiles) IN
    /\ cache' = r.cache
    /\ file' = IF r.save THEN json_dump(r.cache) ELSE file
    /\ lastOp' = IF r.ops = << >> THEN lastOp ELSE r.ops[Len(r.ops)]
    /\ prevCache' = IF r.ops = << >> THEN prevCache ELSE cache
    /\ prevFile' = IF r.ops = << >> THEN prevFile ELSE file
    /\ idx' = idx + 1
    /\ count' = r.count
    /\ delays' = IF r.delayed THEN delays + 1 ELSE delays
    /\ lastItem' = Some(ItemRecord(e, r))
    /\ itemFails' = IF r.raised THEN itemFails + 1 ELSE itemFails
    /\ AfterItem(r)
    /\ UNCHANGED <<alive, clock, importTime, loadedFrom, max_profiles, query, context,
                   browser, loggedIn>>
    /\ UNCHANGED <<attempt, pageUrl, pageLen, gotos, failKinds, startCache, startFile>>

\* one iteration on a page whose elements are any of Elements
SpItem ==
    /\ pc = "sp_loop"
    /\ idx < pageLen
    /\ \E e \in Elements : ItemStep(e)

\* close_browser, lines 121-133
CloseBrowser ==
    /\ pc = "close_browser"
    /\ IF context # None
       THEN Apply("save_cookies", Val(context), save_cookies(cache, Val(context), clock))
       ELSE UNCHANGED <<file, cache, histVars>>
    /\ browser' = IF browser = "open" THEN "closed" ELSE browser
    /\ pc' = "exit"
    /\ UNCHANGED <<alive, clock, importTime, loadedFrom, max_profiles, query, context,
                   loggedIn>>
    /\ UNCHANGED callVars

\* the process has ended and the program is run again on the same file
NewRun ==
    /\ pc = "exit" \/ ~alive
    /\ Construct(file, clock)
    /\ max_profiles' \in 0..MaxCap
    /\ query' \in Queries
    /\ pc' = "start_browser"
    /\ context' = None
    /\ browser' = "none"
    /\ loggedIn' = None
    /\ IdleCall
    /\ UNCHANGED <<file, clock>>

\* Runs of main, one after the other on the same file.  The clock stands
\* still in these behaviours; Tick is an action of CacheSpec.
Next ==
    \/ StartBrowser
    \/ Login
    \/ SpGoto
    \/ SpWait
    \/ SpVisited
    \/ SpMark
    \/ SpQuery
    \/ SpItem
    \/ CloseBrowser
    \/ NewRun

Spec == Init /\ [][Next]_vars

\* One run of main while the clock advances
RunNext ==
    \/ StartBrowser
    \/ Login
    \/ SpGoto
    \/ SpWait
    \/ SpVisited
    \/ SpMark
    \/ SpQuery
    \/ SpItem
    \/ CloseBrowser
    \/ Tick

RunSpec == Init /\ [][RunNext]_vars

-----------------------------------------------------------------------------
(* One run on a page of three well-formed results and one without a name *)

\* default of --max, line 217
DEFAULT_MAX == 200

\* four results with four different links; the second has no name span
ScenarioItems ==
    { Elem(FALSE, Some("Ann"), TRUE, Some(<<"/in/ann", "?", "trk=x">>),
           Some("Engineer"), Some("Pune")),
      Elem(FALSE, None, TRUE, Some(<<"/in/bob">>), None, None),
      Elem(FALSE, Some("Raj"), TRUE, Some(<<"/in/raj">>), Some("Engineer"), None),
      Elem(FALSE, Some("Mei"), TRUE, Some(<<"/in/mei", "?", "trk=y">>),
           None, Some("Oslo")) }

\* main() with --query "software engineer", no --max, and no cache file or
\* one that does not parse
ScenarioInit ==
    /\ Boot
    /\ file \in {Absent, BadJson}
    /\ max_profiles = DEFAULT_MAX
    /\ query = <<"software", " ", "engineer">>

\* line 173 gives the four results
ScQuery ==
    /\ pc = "sp_query"
    /\ QueryStep({Cardinality(ScenarioItems)})

\* The next element is any of the four not iterated yet, the page coming
\* in any order: the four links differ and the dict starts empty, so the
\* elements iterated so far are those whose link is a key of profiles.
ScItem ==
    /\ pc = "sp_loop"
    /\ idx < pageLen
    /\ \E e \in ScenarioItems :
          /\ split_first(Val(e.href)) \notin DOMAIN cache["profiles"]
          /\ ItemStep(e)

ScenarioNext ==
    \/ StartBrowser
    \/ Login
    \/ SpGoto
    \/ SpWait
    \/ SpVisited
    \/ SpMark
    \/ ScQuery
    \/ ScItem
    \/ CloseBrowser
    \/ Tick

ScenarioSpec == ScenarioInit /\ [][ScenarioNext]_vars

-----------------------------------------------------------------------------
(* Properties *)

HasKeys(c) == CacheKeys \subseteq DOMAIN c

\* profile URLs stored since search_profiles was entered
NewProfiles == DOMAIN cache["profiles"] \ DOMAIN startCache["profiles"]

Returned(via) == pc = "close_browser" /\ exitVia = via

\* C1: one search_profiles call stores at most max_profiles new profiles,
\* for every max_profiles >= 0; a call that stored fewer went through the
\* whole page, and a call that reached the cap stopped at the item that
\* reached it; the call returns success.
C1_CapRespected ==
    Returned("extracted") =>
        /\ result = Some(TRUE)
        /\ Cardinality(NewProfiles) = count
        /\ count <= max_profiles
        /\ count < max_profiles => idx = pageLen
        /\ (count = max_profiles /\ idx < pageLen) => lastOp.op = "add_profile"

\* C2: a search_profiles call in which only navigation or rendering failed,
\* on every attempt, made exactly 3 page.goto calls and 3 random_delay
\* calls, left the dict and the file as they were, and returned False.
C2_RetryBudget ==
    (Returned("exhausted") /\ failKinds = {"nav"}) =>
        /\ gotos = 3
        /\ delays = 3
        /\ result = Some(FALSE)
        /\ cache = startCache
        /\ file = startFile
        /\ alive

C2_Witness ==
    /\ Returned("exhausted")
    /\ failKinds = {"nav"}
    /\ gotos = 3
    /\ HasKeys(cache)

\* C3: whenever the page is on the checkpoint URL, search_profiles has
\* returned False through the checkpoint return, the navigation that
\* reached it was the last one of the call, no element was iterated, and
\* the step that reached it changed neither the dict nor the file.
C3_CheckpointState ==
    pageUrl = CheckpointUrl =>
        /\ exitVia = "checkpoint"
        /\ result = Some(FALSE)
        /\ pc \in {"close_browser", "exit"}
        /\ gotos = attempt + 1
        /\ idx = 0 /\ pageLen = 0 /\ count = 0

C3_CheckpointStep ==
    (pageUrl # CheckpointUrl /\ pageUrl' = CheckpointUrl) =>
        /\ cache' = cache
        /\ file' = file
        /\ pc' = "close_browser"

C3_Checkpoint == []C3_CheckpointState /\ [][C3_CheckpointStep]_vars

C3_Witness ==
    /\ Returned("checkpoint")
    /\ attempt = 2
    /\ gotos = 3
    /\ HasKeys(cache)
    /\ cache # startCache

\* C4: search_profiles never goes on to mark or extract a page whose URL
\* is in visited_search_pages; the attempt that finds the URL there returns
\* True and changes neither the dict nor the file; a call that returned
\* this way iterated no element and stored no profile, and when the URL
\* was there on entry the dict and the file are as on entry.
C4_SkipState ==
    /\ pc = "sp_mark" => ~InList(pageUrl, cache["visited_search_pages"])
    /\ Returned("visited") =>
          /\ result = Some(TRUE)
          /\ idx = 0 /\ pageLen = 0 /\ count = 0
          /\ cache["profiles"] = startCache["profiles"]
          /\ InList(pageUrl, startCache["visited_search_pages"])
                => (cache = startCache /\ file = startFile)

C4_SkipStep ==
    (/\ pc = "sp_visited"
     /\ pc' # "sp_visited"
     /\ "visited_search_pages" \in DOMAIN cache
     /\ InList(pageUrl, cache["visited_search_pages"])) =>
        /\ exitVia' = "visited"
        /\ result' = Some(TRUE)
        /\ pc' = "close_browser"
        /\ cache' = cache
        /\ file' = file

C4_VisitedSkip == []C4_SkipState /\ [][C4_SkipStep]_vars

\* the URL was recorded by an earlier run
C4_Witness ==
    /\ Returned("visited")
    /\ InList(pageUrl, startCache["visited_search_pages"])
    /\ startCache["profiles"] # EmptyDict

\* C5: after add_profile(q) the dict holds q's five fields under
\* q.profile_url, whatever was there before, every other profile and every
\* other key of the cache is as before, no key was added besides that URL,
\* and profile_exists of the URL is True.
C5_AddProfile ==
    (lastOp.op = "add_profile" /\ ~lastOp.raised) =>
        LET q == Val(lastOp.arg)
            u == q.profile_url
        IN
        /\ cache["profiles"][u] = q
        /\ DOMAIN cache["profiles"] = DOMAIN prevCache["profiles"] \cup {u}
        /\ \A k \in DOMAIN prevCache["profiles"] \ {u} :
              cache["profiles"][k] = prevCache["profiles"][k]
        /\ DOMAIN cache = DOMAIN prevCache
        /\ \A k \in DOMAIN cache \ {"profiles"} : cache[k] = prevCache[k]
        /\ profile_exists(cache, u).ret = Some(TRUE)
        /\ profile_exists(prevCache, u).ret = Some(u \in DOMAIN prevCache["profiles"])

\* the second add of a URL, with other data, next to another profile
C5_Witness ==
    /\ lastOp.op = "add_profile"
    /\ ~lastOp.raised
    /\ Val(lastOp.arg).profile_url \in DOMAIN prevCache["profiles"]
    /\ prevCache["profiles"][Val(lastOp.arg).profile_url] # Val(lastOp.arg)
    /\ Val(lastOp.arg).headline = None
    /\ prevCache["profiles"][Val(lastOp.arg).profile_url].headline # None
    /\ Cardinality(DOMAIN cache["profiles"]) = 2

NoDuplicates(lst) == \A i, j \in 1..Len(lst) : lst[i] = lst[j] => i = j

\* C6: visited_search_pages never holds a URL twice, and
\* add_visited_search_page of a URL already in it leaves the dict as it was
\* and does not run save_cache.
C6_VisitedOnce ==
    /\ "visited_search_pages" \in DOMAIN cache
          => NoDuplicates(cache["visited_search_pages"])
    /\ (/\ lastOp.op = "add_visited_search_page"
        /\ ~lastOp.raised
        /\ InList(Val(lastOp.arg), prevCache["visited_search_pages"])) =>
          /\ cache = prevCache
          /\ ~lastOp.save
          /\ file = prevFile

C6_Witness ==
    /\ lastOp.op = "add_visited_search_page"
    /\ ~lastOp.raised
    /\ InList(Val(lastOp.arg), prevCache["visited_search_pages"])
    /\ Len(cache["visited_search_pages"]) = 2

\* cookies and last_session are stored and last_session is at most 12
\* hours (2 ticks) before now
StoredAndFresh(c, now) ==
    /\ DictGet(c, "cookies") # None
    /\ DictGet(c, "last_session") # None
    /\ now - Val(c["last_session"]).iso <= 2

\* C7 as stated: get_cookies returns the stored cookies exactly when
\* cookies and last_session are both stored and now - last_session is at
\* most 12 hours, None otherwise, and changes nothing.
C7_AsStated ==
    lastOp.op = "get_cookies" =>
        /\ ~lastOp.raised
        /\ cache = prevCache /\ file = prevFile /\ ~lastOp.save
        /\ IF StoredAndFresh(cache, Val(lastOp.arg))
           THEN lastOp.ret = cache["cookies"]
           ELSE lastOp.ret = None

\* C7 amended: get_cookies returns the stored cookies exactly when a
\* non-empty cookie list and last_session are both stored and
\* now - last_session is at most 12 hours; it returns None when either is
\* missing, when the stored cookie list is empty, or when
\* now - last_session is more than 12 hours; it changes nothing.
C7_GetCookies ==
    lastOp.op = "get_cookies" =>
        /\ ~lastOp.raised
        /\ cache = prevCache /\ file = prevFile /\ ~lastOp.save
        /\ IF StoredAndFresh(cache, Val(lastOp.arg)) /\ Val(cache["cookies"]) # << >>
           THEN lastOp.ret = cache["cookies"]
           ELSE lastOp.ret = None

\* cookies returned at exactly 12 hours
C7_Witness ==
    /\ lastOp.op = "get_cookies"
    /\ lastOp.ret = Some(<<"li_at">>)
    /\ Val(lastOp.arg) - Val(cache["last_session"]).iso = 2

\* C8: main is about to call login only after it asked the cache for
\* cookies as its last cache call and got None, and never while get_cookies
\* would return stored cookies.
C8_CookiesBeforeLogin ==
    pc = "login" =>
        /\ lastOp.op = "get_cookies"
        /\ lastOp.ret = None
        /\ get_cookies(cache, clock).ret = None

\* C9: a process constructed on a missing file or on a file that does not
\* hold a cache state is alive with the empty CacheState, and no cache
\* method raises in it.
C9_LoadRecovers ==
    loadedFrom \in {"absent", "badjson", "badbytes", "other_json"} =>
        /\ alive
        /\ ~lastOp.raised
        /\ lastOp.op = "load" => cache = EmptyCacheState

Mutating == {"add_profile", "add_visited_search_page", "save_cookies"}

\* C10: at every point between cache calls, loading the file gives the
\* in-memory dict, and after add_profile, save_cookies and an inserting
\* add_visited_search_page the file is the dump of the dict.
C10_FileIsCache ==
    /\ alive => _load_cache(file) = [raised |-> FALSE, cache |-> cache]
    /\ (/\ lastOp.op \in Mutating
        /\ ~lastOp.raised
        /\ lastOp.op = "add_visited_search_page"
              => ~InList(Val(lastOp.arg), prevCache["visited_search_pages"])) =>
          /\ lastOp.save
          /\ file = json_dump(cache)

C10_Witness ==
    /\ lastOp.op = "save_cookies"
    /\ HasKeys(cache)
    /\ cache["profiles"] # EmptyDict
    /\ cache["visited_search_pages"] # << >>
    /\ file = json_dump(cache)
    /\ file # prevFile

\* C11: when the process stops inside save_cache, the file loads without
\* raising to the complete dict of before the call or to the complete new
\* one, so every profile stored before the call is still there after a
\* restart.
C11_AtomicSave ==
    lastOp.op = "killed" =>
        LET l == _load_cache(file) IN
        /\ ~l.raised
        /\ l.cache = prevCache \/ l.cache = cache
        /\ HasKeys(prevCache) =>
              /\ HasKeys(l.cache)
              /\ \A u \in DOMAIN prevCache["profiles"] :
                    /\ u \in DOMAIN l.cache["profiles"]
                    /\ l.cache["profiles"][u] = prevCache["profiles"][u]

\* C12: an iteration whose extraction raised changes neither the dict nor
\* the file nor the count, starts no new attempt and no navigation, and goes
\* on to the next element, or returns True after the last one; a call that
\* returned from the loop returned True and went through the whole page
\* unless the break of the cap was taken.
C12_ItemState ==
    Returned("extracted") =>
        /\ result = Some(TRUE)
        /\ idx < pageLen => (Val(lastItem).stop /\ count >= max_profiles)
        /\ gotos = attempt + 1

C12_ItemStep ==
    (pc = "sp_loop" /\ idx' = idx + 1 /\ Val(lastItem').raised) =>
        /\ cache' = cache
        /\ file' = file
        /\ count' = count
        /\ attempt' = attempt
        /\ gotos' = gotos
        /\ failKinds' = failKinds
        /\ itemFails' = itemFails + 1
        /\ IF idx + 1 = pageLen
           THEN pc' = "close_browser" /\ result' = Some(TRUE) /\ exitVia' = "extracted"
           ELSE pc' = "sp_loop" /\ result' = None

C12_ItemFailure == []C12_ItemState /\ [][C12_ItemStep]_vars

\* one of three elements failed and the other two were stored, the last one
\* after the failure or at the end of the page
C12_Witness ==
    /\ Returned("extracted")
    /\ pageLen = 3
    /\ idx = 3
    /\ itemFails = 1
    /\ count = 2
    /\ Cardinality(NewProfiles) = 2
    /\ Val(lastItem).stored

Names(c, n) == {u \in DOMAIN c["profiles"] : c["profiles"][u].name = n}

PairOK(c) == (DictGet(c, "cookies") = None) <=> (DictGet(c, "last_session") = None)

\* C14: cookies and last_session are both stored or both missing, in the
\* dict, in the file when it holds JSON, and in what a reload of the file
\* gives, from every initial file the constructor accepts.
C14_CookiePair ==
    /\ PairOK(cache)
    /\ file.kind = "json" => PairOK(file.value)
    /\ LET l == _load_cache(file) IN ~l.raised => PairOK(l.cache)

\* a restart read the pair back from the file, next to a stored profile
C14_Witness ==
    /\ lastOp.op = "load"
    /\ loadedFrom = "state"
    /\ DictGet(cache, "cookies") = Some(<<"li_at">>)
    /\ DictGet(cache, "last_session") # None
    /\ Val(DictGet(cache, "last_session")) = isoformat(clock - 1)
    /\ cache["profiles"] # EmptyDict
    /\ file = json_dump(cache)

SearchPcs == {"sp_goto", "sp_wait", "sp_visited", "sp_mark", "sp_query", "sp_loop"}

\* C15: search_profiles runs only with the browser open and after login
\* returned True; after login returned False no statement of
\* search_profiles runs and no cache call is made but the save_cookies of
\* close_browser, which main calls next: it stores the cookies of the
\* context with last_session at the clock of that call, saves the file and
\* closes the browser.
C15_LoginState ==
    /\ pc \in SearchPcs => (loggedIn = Some(TRUE) /\ browser = "open")
    /\ result # None => loggedIn = Some(TRUE)
    /\ loggedIn = Some(FALSE) =>
          /\ pc \in {"close_browser", "exit"}
          /\ gotos = 0 /\ delays = 0 /\ exitVia = "none" /\ result = None
          /\ lastOp.op \in {"load", "save_cookies"}
          /\ pc = "close_browser" => (browser = "open" /\ lastOp.op = "load")
          /\ pc = "exit" =>
                /\ browser = "closed"
                /\ lastOp.op = "save_cookies"
                /\ lastOp.arg = context
                /\ lastOp.save /\ ~lastOp.raised
                /\ DictGet(cache, "cookies") = context
                /\ DictGet(cache, "last_session") # None
                /\ file = json_dump(cache)

C15_LoginStep ==
    /\ (pc = "login" /\ loggedIn' = Some(FALSE)) =>
          (pc' = "close_browser" /\ cache' = cache /\ file' = file)
    /\ (pc = "close_browser" /\ pc' = "exit" /\ loggedIn = Some(FALSE)) =>
          /\ DictGet(cache', "last_session") = Some(isoformat(clock))
          /\ \A k \in DOMAIN cache \ {"cookies", "last_session"} : cache'[k] = cache[k]

MarkedAndSaved(u) ==
    /\ HasKeys(cache)
    /\ InList(u, cache["visited_search_pages"])
    /\ file.kind = "json"
    /\ HasKeys(file.value)
    /\ InList(u, file.value["visited_search_pages"])

\* C16: from query_selector_all to the return of line 204 the results URL
\* is in visited_search_pages, in the dict and in the file, so before the
\* first element is read; an iteration that changes the dict or the file
\* made exactly two cache calls, profile_exists of the URL, which returned
\* False, then add_profile of a profile with that URL, and its result is
\* that of add_profile on the dict as profile_exists left it.
C16_OrderState ==
    (pc \in {"sp_query", "sp_loop"} \/ Returned("extracted")) => MarkedAndSaved(pageUrl)

C16_OrderStep ==
    (pc = "sp_loop" /\ idx' = idx + 1) =>
        LET it == Val(lastItem') IN
        /\ MarkedAndSaved(pageUrl)
        /\ it.stored <=> (cache' # cache \/ file' # file)
        /\ it.stored =>
              /\ Len(it.ops) = 2
              /\ it.ops[1].op = "profile_exists"
              /\ it.ops[1].ret = Some(FALSE)
              /\ it.ops[2].op = "add_profile"
              /\ ~it.ops[2].raised
              /\ Val(it.ops[2].arg).profile_url = Val(it.ops[1].arg)
              /\ Val(it.ops[1].arg) \notin DOMAIN cache["profiles"]
              /\ cache' = add_profile(cache, Val(it.ops[2].arg)).cache
              /\ file' = json_dump(cache')
        /\ ~it.stored => \A i \in 1..Len(it.ops) : it.ops[i].op = "profile_exists"

C16_Ordering == []C16_OrderState /\ [][C16_OrderStep]_vars

\* the second element of a page marked in this call was stored
C16_Witness ==
    /\ pc = "sp_loop"
    /\ lastItem # None
    /\ Val(lastItem).stored
    /\ idx = 2
    /\ count = 1
    /\ ~InList(pageUrl, startCache["visited_search_pages"])
    /\ MarkedAndSaved(pageUrl)

\* C17: a search_profiles call that returned True for a results URL that
\* was not in visited_search_pages when the call began returned through
\* line 204, after an attempt iterated the result elements of the page, also
\* when an earlier attempt failed after the URL was marked.
C17_VisitedMeansProcessed ==
    (/\ pc = "close_browser"
     /\ result = Some(TRUE)
     /\ ~InList(pageUrl, startCache["visited_search_pages"])) =>
        /\ exitVia = "extracted"
        /\ InList(pageUrl, cache["visited_search_pages"])

\* C18: a profile stored by an iteration of the loop has as scraped_at the
\* clock of that iteration, in the dict and in the file.
C18_ScrapedAtStep ==
    (pc = "sp_loop" /\ idx' = idx + 1 /\ Val(lastItem').stored) =>
        LET q == Val(lastOp'.arg) IN
        /\ q.scraped_at = isoformat(clock)
        /\ cache'["profiles"][q.profile_url].scraped_at = isoformat(clock)
        /\ file'.value["profiles"][q.profile_url].scraped_at = isoformat(clock)

C18_ScrapedAt == [][C18_ScrapedAtStep]_vars

\* C19: when the loop goes on from one element to the next, random_delay
\* ran in the iteration of the first, whether it stored a profile, found a
\* duplicate or failed.
C19_DelayBetweenItems ==
    (pc = "sp_loop" /\ lastItem # None) => Val(lastItem).delayed

\* C20: every profile is stored under its own profile_url; an iteration
\* on an element without a link asks profile_exists("N/A"): when "N/A" is
\* not a key it stores the element under "N/A" and counts it, when it is a
\* key it changes neither the dict nor the file nor the count; the profile
\* under "N/A" is never replaced or removed afterwards, in this run or a
\* later one.
C20_KeysState ==
    HasKeys(cache) =>
        \A u \in DOMAIN cache["profiles"] : cache["profiles"][u].profile_url = u

C20_LinklessStep ==
    /\ (pc = "sp_loop" /\ idx' = idx + 1 /\ ~Val(lastItem').elem.detached
           /\ ~Val(lastItem').elem.has_link) =>
          LET it == Val(lastItem') IN
          /\ ~it.raised
          /\ Len(it.ops) >= 1
          /\ it.ops[1].op = "profile_exists"
          /\ it.ops[1].arg = Some(NA)
          /\ IF NA \in DOMAIN cache["profiles"]
             THEN /\ ~it.stored
                  /\ Len(it.ops) = 1
                  /\ cache' = cache /\ file' = file /\ count' = count
             ELSE /\ it.stored
                  /\ count' = count + 1
                  /\ DOMAIN cache'["profiles"] = DOMAIN cache["profiles"] \cup {NA}
                  /\ cache'["profiles"][NA].name = text_or_na(it.elem.name)
                  /\ file' = json_dump(cache')
    /\ (HasKeys(cache) /\ NA \in DOMAIN cache["profiles"]) =>
          /\ HasKeys(cache')
          /\ NA \in DOMAIN cache'["profiles"]
          /\ cache'["profiles"][NA] = cache["profiles"][NA]

C20_Linkless == []C20_KeysState /\ [][C20_LinklessStep]_vars

\* an element without a link was dropped because another one, stored by an
\* earlier run, is under "N/A"
C20_Witness ==
    /\ lastItem # None
    /\ ~Val(lastItem).elem.has_link
    /\ ~Val(lastItem).elem.detached
    /\ ~Val(lastItem).stored
    /\ NA \in DOMAIN startCache["profiles"]
    /\ cache["profiles"][NA].name # text_or_na(Val(lastItem).elem.name)
    /\ loadedFrom = "state"
    /\ count = 1

====
